---------------------------- MODULE Spec2Model ----------------------------
(***************************************************************************)
(* Emergency Services Locator API: the get_help pipeline of                *)
(* app/api/routes.py with the intent extractor of app/utils/common.py, the *)
(* geocoder adapter of app/services/location_service.py and the store      *)
(* operations of app/db/postgres.py.                                       *)
(*                                                                         *)
(* A Python str is modelled by the sequence of its code points; the TLA+   *)
(* strings of the module are labels of the model (the place of a handler,  *)
(* the kind of a value, the name of a called function).  Optional values   *)
(* are records: None is [isNone |-> TRUE], a present value v is            *)
(* [isNone |-> FALSE, v |-> v].                                            *)
(*                                                                         *)
(* Coordinates: every point of the model lies on one meridian; latitude    *)
(* is given in metres north of a reference point and longitude is 0, so    *)
(* the geodesic distance of two points is the difference of their          *)
(* latitudes, in metres.  All latitudes are even numbers of metres, so a   *)
(* distance never falls exactly between two hundredths of a kilometre.     *)
(***************************************************************************)
EXTENDS Integers, Sequences, FiniteSets, TLC

(***************************************************************************)
(* Bounds of the model.                                                    *)
(***************************************************************************)
MaxStore == 2

NumRequests == 2

MaxWrites == 1

(***************************************************************************)
(* Python values.                                                          *)
(***************************************************************************)
None == [isNone |-> TRUE]

Some(x) == [isNone |-> FALSE, v |-> x]

\* A str held in a field declared Optional[List[str]] (routes.py line 78).
PyStr(s) == [isNone |-> FALSE, kind |-> "str", v |-> s]

\* A list of str.
PyList(l) == [isNone |-> FALSE, kind |-> "list", v |-> l]

\* bool(x) of an optional str or list: None, "" and [] are falsy.
Truthy(x) == (~x.isNone) /\ Len(x.v) > 0

Abs(n) == IF n < 0 THEN -n ELSE n

(***************************************************************************)
(* Python str.  A str is the sequence of the code points of its           *)
(* characters: "Hi" is <<72, 105>> and "" is <<>>.  Str gives the str of   *)
(* a text of printable ASCII characters; a character Str has no entry for  *)
(* is written as its code point.                                           *)
(***************************************************************************)
\* The characters of code points 32 to 95 and of code points 97 to 126.
AsciiTo95 == " !\"#$%&'()*+,-./0123456789:;<=>?@ABCDEFGHIJKLMNOPQRSTUVWXYZ[\\]^_"

AsciiFrom97 == "abcdefghijklmnopqrstuvwxyz{|}~"

\* ord(c) of these characters.
Ord ==
    [c \in {SubSeq(AsciiTo95, i, i) : i \in 1..Len(AsciiTo95)}
             \cup {SubSeq(AsciiFrom97, i, i) : i \in 1..Len(AsciiFrom97)} |->
        IF \E i \in 1..Len(AsciiTo95) : SubSeq(AsciiTo95, i, i) = c
        THEN 31 + CHOOSE i \in 1..Len(AsciiTo95) : SubSeq(AsciiTo95, i, i) = c
        ELSE 96 + CHOOSE i \in 1..Len(AsciiFrom97) : SubSeq(AsciiFrom97, i, i) = c]

\* The str of the characters of t.
Str(t) == [i \in 1..Len(t) |-> Ord[SubSeq(t, i, i)]]

\* str(n) of an int n >= 0.
RECURSIVE IntStr(_)
IntStr(n) == IF n < 10 THEN <<48 + n>> ELSE IntStr(n \div 10) \o <<48 + (n % 10)>>

(***************************************************************************)
(* str methods used by the code, with the tables of the Unicode database   *)
(* of Python 3.11 (Unicode 14.0.0).  A table is written as a text of       *)
(* numbers of seven characters each.                                       *)
(***************************************************************************)
\* The number written in the seven characters of t that end at position p.
Number(t, p) ==
    LET Digit(c) == IF c = " " THEN 0 ELSE Ord[c] - 48
        N[i \in 0..7] == IF i = 0 THEN 0
                         ELSE 10 * N[i - 1] + Digit(SubSeq(t, p - 7 + i, p - 7 + i))
    IN  N[7]

\* The rows of n numbers written in t.
Table(t, n) ==
    [k \in 1..(Len(t) \div (7 * n)) |->
        [j \in 1..n |-> Number(t, 7 * (n * (k - 1) + j))]]

\* The code points c.lower() changes, but U+0130 and U+03A3.  A row
\* <<lo, hi, step, to>> stands for lo, lo + step, ..., hi: lo becomes to,
\* and each of the others moves by as much as lo does.
LowerRuns ==
    Table("     65     90      1     97    192    214      1    224    216    222      1    248"
          \o "    256    302      2    257    306    310      2    307    313    327      2    314"
          \o "    330    374      2    331    376    376      1    255    377    381      2    378"
          \o "    385    385      1    595    386    388      2    387    390    390      1    596"
          \o "    391    391      1    392    393    394      1    598    395    395      1    396"
          \o "    398    398      1    477    399    399      1    601    400    400      1    603"
          \o "    401    401      1    402    403    403      1    608    404    404      1    611"
          \o "    406    406      1    617    407    407      1    616    408    408      1    409"
          \o "    412    412      1    623    413    413      1    626    415    415      1    629"
          \o "    416    420      2    417    422    422      1    640    423    423      1    424"
          \o "    425    425      1    643    428    428      1    429    430    430      1    648"
          \o "    431    431      1    432    433    434      1    650    435    437      2    436"
          \o "    439    439      1    658    440    440      1    441    444    444      1    445"
          \o "    452    452      1    454    453    453      1    454    455    455      1    457"
          \o "    456    456      1    457    458    458      1    460    459    475      2    460"
          \o "    478    494      2    479    497    497      1    499    498    500      2    499"
          \o "    502    502      1    405    503    503      1    447    504    542      2    505"
          \o "    544    544      1    414    546    562      2    547    570    570      1  11365"
          \o "    571    571      1    572    573    573      1    410    574    574      1  11366"
          \o "    577    577      1    578    579    579      1    384    580    580      1    649"
          \o "    581    581      1    652    582    590      2    583    880    882      2    881"
          \o "    886    886      1    887    895    895      1   1011    902    902      1    940"
          \o "    904    906      1    941    908    908      1    972    910    911      1    973"
          \o "    913    929      1    945    932    939      1    964    975    975      1    983"
          \o "    984   1006      2    985   1012   1012      1    952   1015   1015      1   1016"
          \o "   1017   1017      1   1010   1018   1018      1   1019   1021   1023      1    891"
          \o "   1024   1039      1   1104   1040   1071      1   1072   1120   1152      2   1121"
          \o "   1162   1214      2   1163   1216   1216      1   1231   1217   1229      2   1218"
          \o "   1232   1326      2   1233   1329   1366      1   1377   4256   4293      1  11520"
          \o "   4295   4295      1  11559   4301   4301      1  11565   5024   5103      1  43888"
          \o "   5104   5109      1   5112   7312   7354      1   4304   7357   7359      1   4349"
          \o "   7680   7828      2   7681   7838   7838      1    223   7840   7934      2   7841"
          \o "   7944   7951      1   7936   7960   7965      1   7952   7976   7983      1   7968"
          \o "   7992   7999      1   7984   8008   8013      1   8000   8025   8031      2   8017"
          \o "   8040   8047      1   8032   8072   8079      1   8064   8088   8095      1   8080"
          \o "   8104   8111      1   8096   8120   8121      1   8112   8122   8123      1   8048"
          \o "   8124   8124      1   8115   8136   8139      1   8050   8140   8140      1   8131"
          \o "   8152   8153      1   8144   8154   8155      1   8054   8168   8169      1   8160"
          \o "   8170   8171      1   8058   8172   8172      1   8165   8184   8185      1   8056"
          \o "   8186   8187      1   8060   8188   8188      1   8179   8486   8486      1    969"
          \o "   8490   8490      1    107   8491   8491      1    229   8498   8498      1   8526"
          \o "   8544   8559      1   8560   8579   8579      1   8580   9398   9423      1   9424"
          \o "  11264  11311      1  11312  11360  11360      1  11361  11362  11362      1    619"
          \o "  11363  11363      1   7549  11364  11364      1    637  11367  11371      2  11368"
          \o "  11373  11373      1    593  11374  11374      1    625  11375  11375      1    592"
          \o "  11376  11376      1    594  11378  11378      1  11379  11381  11381      1  11382"
          \o "  11390  11391      1    575  11392  11490      2  11393  11499  11501      2  11500"
          \o "  11506  11506      1  11507  42560  42604      2  42561  42624  42650      2  42625"
          \o "  42786  42798      2  42787  42802  42862      2  42803  42873  42875      2  42874"
          \o "  42877  42877      1   7545  42878  42886      2  42879  42891  42891      1  42892"
          \o "  42893  42893      1    613  42896  42898      2  42897  42902  42920      2  42903"
          \o "  42922  42922      1    614  42923  42923      1    604  42924  42924      1    609"
          \o "  42925  42925      1    620  42926  42926      1    618  42928  42928      1    670"
          \o "  42929  42929      1    647  42930  42930      1    669  42931  42931      1  43859"
          \o "  42932  42946      2  42933  42948  42948      1  42900  42949  42949      1    642"
          \o "  42950  42950      1   7566  42951  42953      2  42952  42960  42960      1  42961"
          \o "  42966  42968      2  42967  42997  42997      1  42998  65313  65338      1  65345"
          \o "  66560  66599      1  66600  66736  66771      1  66776  66928  66964      2  66967"
          \o "  66929  66937      2  66968  66941  66953      2  66980  66957  66961      2  66996"
          \o "  66965  66965      1  67004  68736  68786      1  68800  71840  71871      1  71872"
          \o "  93760  93791      1  93792 125184 125217      1 125218", 4)

\* The ranges <<lo, hi>> of the characters str.lower() counts as cased when
\* it looks for the letters around a capital sigma, the case-ignorable ones
\* left out.
Cased ==
    Table("     65     90     97    122    170    170    181    181    186    186    192    214"
          \o "    216    246    248    442    444    447    452    659    661    687    880    883"
          \o "    886    887    891    893    895    895    902    902    904    906    908    908"
          \o "    910    929    931   1013   1015   1153   1162   1327   1329   1366   1376   1416"
          \o "   4256   4293   4295   4295   4301   4301   4304   4346   4349   4351   5024   5109"
          \o "   5112   5117   7296   7304   7312   7354   7357   7359   7424   7467   7531   7543"
          \o "   7545   7578   7680   7957   7960   7965   7968   8005   8008   8013   8016   8023"
          \o "   8025   8025   8027   8027   8029   8029   8031   8061   8064   8116   8118   8124"
          \o "   8126   8126   8130   8132   8134   8140   8144   8147   8150   8155   8160   8172"
          \o "   8178   8180   8182   8188   8450   8450   8455   8455   8458   8467   8469   8469"
          \o "   8473   8477   8484   8484   8486   8486   8488   8488   8490   8493   8495   8500"
          \o "   8505   8505   8508   8511   8517   8521   8526   8526   8544   8575   8579   8580"
          \o "   9398   9449  11264  11387  11390  11492  11499  11502  11506  11507  11520  11557"
          \o "  11559  11559  11565  11565  42560  42605  42624  42651  42786  42863  42865  42887"
          \o "  42891  42894  42896  42954  42960  42961  42963  42963  42965  42969  42997  42998"
          \o "  43002  43002  43824  43866  43872  43880  43888  43967  64256  64262  64275  64279"
          \o "  65313  65338  65345  65370  66560  66639  66736  66771  66776  66811  66928  66938"
          \o "  66940  66954  66956  66962  66964  66965  66967  66977  66979  66993  66995  67001"
          \o "  67003  67004  68736  68786  68800  68850  71840  71903  93760  93823 119808 119892"
          \o " 119894 119964 119966 119967 119970 119970 119973 119974 119977 119980 119982 119993"
          \o " 119995 119995 119997 120003 120005 120069 120071 120074 120077 120084 120086 120092"
          \o " 120094 120121 120123 120126 120128 120132 120134 120134 120138 120144 120146 120485"
          \o " 120488 120512 120514 120538 120540 120570 120572 120596 120598 120628 120630 120654"
          \o " 120656 120686 120688 120712 120714 120744 120746 120770 120772 120779 122624 122633"
          \o " 122635 122654 125184 125251 127280 127305 127312 127337 127344 127369", 2)

\* The ranges <<lo, hi>> of the characters str.lower() passes over when it
\* looks for the letters around a capital sigma.
CaseIgnorable ==
    Table("     39     39     46     46     58     58     94     94     96     96    168    168"
          \o "    173    173    175    175    180    180    183    184    688    879    884    885"
          \o "    890    890    900    901    903    903   1155   1161   1369   1369   1375   1375"
          \o "   1425   1469   1471   1471   1473   1474   1476   1477   1479   1479   1524   1524"
          \o "   1536   1541   1552   1562   1564   1564   1600   1600   1611   1631   1648   1648"
          \o "   1750   1757   1759   1768   1770   1773   1807   1807   1809   1809   1840   1866"
          \o "   1958   1968   2027   2037   2042   2042   2045   2045   2070   2093   2137   2139"
          \o "   2184   2184   2192   2193   2200   2207   2249   2306   2362   2362   2364   2364"
          \o "   2369   2376   2381   2381   2385   2391   2402   2403   2417   2417   2433   2433"
          \o "   2492   2492   2497   2500   2509   2509   2530   2531   2558   2558   2561   2562"
          \o "   2620   2620   2625   2626   2631   2632   2635   2637   2641   2641   2672   2673"
          \o "   2677   2677   2689   2690   2748   2748   2753   2757   2759   2760   2765   2765"
          \o "   2786   2787   2810   2815   2817   2817   2876   2876   2879   2879   2881   2884"
          \o "   2893   2893   2901   2902   2914   2915   2946   2946   3008   3008   3021   3021"
          \o "   3072   3072   3076   3076   3132   3132   3134   3136   3142   3144   3146   3149"
          \o "   3157   3158   3170   3171   3201   3201   3260   3260   3263   3263   3270   3270"
          \o "   3276   3277   3298   3299   3328   3329   3387   3388   3393   3396   3405   3405"
          \o "   3426   3427   3457   3457   3530   3530   3538   3540   3542   3542   3633   3633"
          \o "   3636   3642   3654   3662   3761   3761   3764   3772   3782   3782   3784   3789"
          \o "   3864   3865   3893   3893   3895   3895   3897   3897   3953   3966   3968   3972"
          \o "   3974   3975   3981   3991   3993   4028   4038   4038   4141   4144   4146   4151"
          \o "   4153   4154   4157   4158   4184   4185   4190   4192   4209   4212   4226   4226"
          \o "   4229   4230   4237   4237   4253   4253   4348   4348   4957   4959   5906   5908"
          \o "   5938   5939   5970   5971   6002   6003   6068   6069   6071   6077   6086   6086"
          \o "   6089   6099   6103   6103   6109   6109   6155   6159   6211   6211   6277   6278"
          \o "   6313   6313   6432   6434   6439   6440   6450   6450   6457   6459   6679   6680"
          \o "   6683   6683   6742   6742   6744   6750   6752   6752   6754   6754   6757   6764"
          \o "   6771   6780   6783   6783   6823   6823   6832   6862   6912   6915   6964   6964"
          \o "   6966   6970   6972   6972   6978   6978   7019   7027   7040   7041   7074   7077"
          \o "   7080   7081   7083   7085   7142   7142   7144   7145   7149   7149   7151   7153"
          \o "   7212   7219   7222   7223   7288   7293   7376   7378   7380   7392   7394   7400"
          \o "   7405   7405   7412   7412   7416   7417   7468   7530   7544   7544   7579   7679"
          \o "   8125   8125   8127   8129   8141   8143   8157   8159   8173   8175   8189   8190"
          \o "   8203   8207   8216   8217   8228   8228   8231   8231   8234   8238   8288   8292"
          \o "   8294   8303   8305   8305   8319   8319   8336   8348   8400   8432  11388  11389"
          \o "  11503  11505  11631  11631  11647  11647  11744  11775  11823  11823  12293  12293"
          \o "  12330  12333  12337  12341  12347  12347  12441  12446  12540  12542  40981  40981"
          \o "  42232  42237  42508  42508  42607  42610  42612  42621  42623  42623  42652  42655"
          \o "  42736  42737  42752  42785  42864  42864  42888  42890  42994  42996  43000  43001"
          \o "  43010  43010  43014  43014  43019  43019  43045  43046  43052  43052  43204  43205"
          \o "  43232  43249  43263  43263  43302  43309  43335  43345  43392  43394  43443  43443"
          \o "  43446  43449  43452  43453  43471  43471  43493  43494  43561  43566  43569  43570"
          \o "  43573  43574  43587  43587  43596  43596  43632  43632  43644  43644  43696  43696"
          \o "  43698  43700  43703  43704  43710  43711  43713  43713  43741  43741  43756  43757"
          \o "  43763  43764  43766  43766  43867  43871  43881  43883  44005  44005  44008  44008"
          \o "  44013  44013  64286  64286  64434  64450  65024  65039  65043  65043  65056  65071"
          \o "  65106  65106  65109  65109  65279  65279  65287  65287  65294  65294  65306  65306"
          \o "  65342  65342  65344  65344  65392  65392  65438  65439  65507  65507  65529  65531"
          \o "  66045  66045  66272  66272  66422  66426  67456  67461  67463  67504  67506  67514"
          \o "  68097  68099  68101  68102  68108  68111  68152  68154  68159  68159  68325  68326"
          \o "  68900  68903  69291  69292  69446  69456  69506  69509  69633  69633  69688  69702"
          \o "  69744  69744  69747  69748  69759  69761  69811  69814  69817  69818  69821  69821"
          \o "  69826  69826  69837  69837  69888  69890  69927  69931  69933  69940  70003  70003"
          \o "  70016  70017  70070  70078  70089  70092  70095  70095  70191  70193  70196  70196"
          \o "  70198  70199  70206  70206  70367  70367  70371  70378  70400  70401  70459  70460"
          \o "  70464  70464  70502  70508  70512  70516  70712  70719  70722  70724  70726  70726"
          \o "  70750  70750  70835  70840  70842  70842  70847  70848  70850  70851  71090  71093"
          \o "  71100  71101  71103  71104  71132  71133  71219  71226  71229  71229  71231  71232"
          \o "  71339  71339  71341  71341  71344  71349  71351  71351  71453  71455  71458  71461"
          \o "  71463  71467  71727  71735  71737  71738  71995  71996  71998  71998  72003  72003"
          \o "  72148  72151  72154  72155  72160  72160  72193  72202  72243  72248  72251  72254"
          \o "  72263  72263  72273  72278  72281  72283  72330  72342  72344  72345  72752  72758"
          \o "  72760  72765  72767  72767  72850  72871  72874  72880  72882  72883  72885  72886"
          \o "  73009  73014  73018  73018  73020  73021  73023  73029  73031  73031  73104  73105"
          \o "  73109  73109  73111  73111  73459  73460  78896  78904  92912  92916  92976  92982"
          \o "  92992  92995  94031  94031  94095  94111  94176  94177  94179  94180 110576 110579"
          \o " 110581 110587 110589 110590 113821 113822 113824 113827 118528 118573 118576 118598"
          \o " 119143 119145 119155 119170 119173 119179 119210 119213 119362 119364 121344 121398"
          \o " 121403 121452 121461 121461 121476 121476 121499 121503 121505 121519 122880 122886"
          \o " 122888 122904 122907 122913 122915 122916 122918 122922 123184 123197 123566 123566"
          \o " 123628 123631 125136 125142 125252 125259 127995 127999 917505 917505 917536 917631"
          \o " 917760 917999", 2)

\* c lies in one of the ranges of runs.
InRuns(c, runs) == \E k \in 1..Len(runs) : runs[k][1] <= c /\ c <= runs[k][2]

\* What the rows of runs make of c: the str of c when no row has it.
Moved(c, runs) ==
    LET Has(k) == /\ runs[k][1] <= c
                  /\ c <= runs[k][2]
                  /\ (c - runs[k][1]) % runs[k][3] = 0
    IN  IF \E k \in 1..Len(runs) : Has(k)
        THEN LET k == CHOOSE k \in 1..Len(runs) : Has(k)
             IN  <<c + runs[k][4] - runs[k][1]>>
        ELSE <<c>>

\* c.lower() of a character other than capital sigma (U+03A3), a str.  The
\* small letters a to z and the space are in no row of LowerRuns; U+0130
\* becomes "i" and U+0307.
LowerChar(c) ==
    IF c \in 97..122 \/ c = 32 THEN <<c>>
    ELSE IF c = 304 THEN <<105, 775>>
    ELSE Moved(c, LowerRuns)

\* The capital sigma at place i of s is a final one: a cased letter stands
\* before it and none after it, case-ignorable characters passed over.
FinalSigma(s, i, cased, ignorable) ==
    /\ \E j \in 1..(i - 1) :
          /\ InRuns(s[j], cased)
          /\ \A k \in (j + 1)..(i - 1) : InRuns(s[k], ignorable)
    /\ ~\E j \in (i + 1)..Len(s) :
          /\ InRuns(s[j], cased)
          /\ \A k \in (i + 1)..(j - 1) : InRuns(s[k], ignorable)

\* s.lower().  A capital sigma (931) becomes the final sigma (962) or the
\* small sigma (963).
Lower(s) ==
    LET Low(i) == IF s[i] # 931 THEN LowerChar(s[i])
                  ELSE IF FinalSigma(s, i, Cased, CaseIgnorable) THEN <<962>>
                  ELSE <<963>>
        F[i \in 0..Len(s)] == IF i = 0 THEN <<>> ELSE F[i - 1] \o Low(i)
    IN  F[Len(s)]

\* c.isspace(): the characters str.split() and str.strip() take for
\* whitespace.
IsSpace(c) ==
    c \in (9..13) \cup (28..32) \cup {133, 160, 5760} \cup (8192..8202)
              \cup {8232, 8233, 8239, 8287, 12288}

\* sub in s
Contains(sub, s) ==
    \E i \in 0..(Len(s) - Len(sub)) : SubSeq(s, i + 1, i + Len(sub)) = sub

RECURSIVE LStrip(_)
LStrip(s) ==
    IF Len(s) > 0 /\ IsSpace(Head(s)) THEN LStrip(Tail(s)) ELSE s

RECURSIVE RStrip(_)
RStrip(s) ==
    IF Len(s) > 0 /\ IsSpace(s[Len(s)])
    THEN RStrip(SubSeq(s, 1, Len(s) - 1))
    ELSE s

\* s.strip()
Strip(s) == RStrip(LStrip(s))

\* The first whitespace-free run of s, s having no leading whitespace.
RECURSIVE FirstWord(_)
FirstWord(s) ==
    IF Len(s) = 0 \/ IsSpace(Head(s)) THEN <<>>
    ELSE <<Head(s)>> \o FirstWord(Tail(s))

\* s.split(): the maximal whitespace-free runs of s, in order.
RECURSIVE Split(_)
Split(s) ==
    LET t == LStrip(s)
        w == FirstWord(t)
    IN  IF Len(t) = 0 THEN <<>>
        ELSE <<w>> \o Split(SubSeq(t, Len(w) + 1, Len(t)))

\* sep.join(words)
RECURSIVE Join(_, _)
Join(sep, words) ==
    IF Len(words) = 0 THEN <<>>
    ELSE IF Len(words) = 1 THEN words[1]
    ELSE words[1] \o sep \o Join(sep, Tail(words))

\* s.replace(old, ""): the occurrences of old are removed left to right.
RECURSIVE Remove(_, _)
Remove(s, old) ==
    IF Len(s) < Len(old) THEN s
    ELSE IF SubSeq(s, 1, Len(old)) = old
         THEN Remove(SubSeq(s, Len(old) + 1, Len(s)), old)
         ELSE <<Head(s)>> \o Remove(Tail(s), old)

\* w in words
InList(w, words) == \E i \in 1..Len(words) : words[i] = w

(***************************************************************************)
(* app/utils/common.py: extract_location_and_service                       *)
(***************************************************************************)
known_services ==
    <<Str("ambulance"), Str("doctor"), Str("hospital"), Str("medical"),
      Str("clinic"), Str("nurse")>>

\* The for loop with break: the first entry of the lexicon among the words.
FoundService(words) ==
    LET hits == {i \in 1..Len(known_services) : InList(known_services[i], words)}
    IN  IF hits = {} THEN None
        ELSE Some(known_services[CHOOSE i \in hits : \A j \in hits : i <= j])

\* Lines 67-70: the words but the service found, joined, without "need" and
\* "help", trimmed.
Location(words, found_service) ==
    LET NotFound(w) == w # found_service.v
        rest == IF found_service.isNone THEN words
                ELSE SelectSeq(words, NotFound)
    IN  Strip(Remove(Remove(Join(Str(" "), rest), Str("need")), Str("help")))

\* Mutant of extract_location_and_service: the filler words are dropped as
\* words of the text, not as substrings of the joined text.
extract_location_and_service_ByWord(text) ==
    LET words0 == Split(Lower(text))
        found_service == FoundService(words0)
        Kept(w) == (found_service.isNone \/ w # found_service.v)
                       /\ w # Str("need") /\ w # Str("help")
    IN  [possible_location |-> Strip(Join(Str(" "), SelectSeq(words0, Kept))),
         found_service |-> found_service]

\* Lines 59-72, with the words of line 59.
Extraction(words) ==
    [possible_location |-> Location(words, FoundService(words)),
     found_service |-> FoundService(words)]

extract_location_and_service(text) == Extraction(Split(Lower(text)))

(***************************************************************************)
(* app/config.py                                                           *)
(***************************************************************************)
DEFAULT_SEARCH_RADIUS_KM == 10

(***************************************************************************)
(* Distances.  geodesic(p, q).km of two points of the meridian, in metres, *)
(* and round(km, 2), in hundredths of a kilometre.                         *)
(***************************************************************************)
Geodesic(lat1, lon1, lat2, lon2) == Abs(lat1 - lat2)

Round2(metres) == (metres + 5) \div 10

(***************************************************************************)
(* The inputs of the model.                                                *)
(***************************************************************************)
\* Bodies of POST /add_service/ and rows of the files of POST /upload_services/
\* (app/db/models.py, Service).
ServiceInputs ==
    { [name |-> Str("City Hospital"), type |-> Str("hospital"),
       latitude |-> 3000, longitude |-> 0],
      [name |-> Str("Care Pharmacy"), type |-> Str("pharmacy"),
       latitude |-> -3000, longitude |-> 0],
      [name |-> Str("Walk-in"), type |-> Str("Clinic"),
       latitude |-> 14996, longitude |-> 0] }

Queries ==
    { Str(""), Str("Help"), Str("hospital"), Str("need a hospital"),
      Str("clinic doctor"), Str("Needy nurse helpline"),
      \* "doctor\r\x0b\f help\x1c\x1f"
      Str("doctor") \o <<13, 11, 12>> \o Str(" help") \o <<28, 31>>,
      Str("I need an ambulance near Central Park") }

\* Bodies of POST /get_help/ (app/db/models.py, UserQuery).
HelpRequests ==
    [ query              : Queries,
      latitude           : {None, Some(0)},
      longitude          : {None, Some(0)},
      service_type       : {None, PyList(<<>>), PyList(<<Str("hospital")>>)},
      location_mentioned : {None, Some(Str("Central Park"))},
      urgency            : {None, Some(Str("High")), Some(Str("Low")),
                            Some(Str("Medium")), Some(Str("high"))} ]

\* "Nurse near CAFE", the E with an acute accent (U+00C9).
NurseNearCafe == Str("Nurse near CAF") \o <<201>>

\* Greek capitals: omicron delta omicron sigma, " Clinic ", sigma omicron
\* sigma.
OdosClinicSos == <<927, 916, 927, 931>> \o Str(" Clinic ") \o <<931, 927, 931>>

\* "NEED HELP AT ECOLE Doctor", the A with a grave accent (U+00C0) and the
\* E with an acute accent.
NeedHelpAtEcole ==
    Str("NEED HELP ") \o <<192>> \o Str("T ") \o <<201>> \o Str("COLE Doctor")

\* "Hospital", a no-break space (U+00A0), "United" with a U with diaeresis
\* (U+00DC).
HospitalUnited == Str("Hospital") \o <<160, 220>> \o Str("nited")

\* "hospital BAR", the B with a hook (U+0181).
HospitalBar == Str("hospital ") \o <<385>> \o Str("AR")

\* "Istanbul clinic", the I with a dot above (U+0130).
IstanbulClinic == <<304>> \o Str("stanbul clinic")

\* "doctor", an em space (U+2003), a word of capital schwas (U+018F) with
\* L and T.
DoctorElet == Str("doctor") \o <<8195, 399>> \o Str("L") \o <<399>> \o Str("T")

\* "Ambulance " and two Deseret capitals (U+10400, U+10401).
AmbulanceDeseret == Str("Ambulance ") \o <<66560, 66561>>

\* The texts of the extractor's specification.
ExtractorTexts ==
    Queries \cup { NurseNearCafe, OdosClinicSos, NeedHelpAtEcole, HospitalUnited,
                   HospitalBar, IstanbulClinic, DoctorElet, AmbulanceDeseret }

\* The requests of the extractor's specification.
ExtractorRequests ==
    [ query              : ExtractorTexts,
      latitude           : {Some(0)},
      longitude          : {Some(0)},
      service_type       : {None},
      location_mentioned : {None},
      urgency            : {Some(Str("Medium"))} ]

\* The requests of the event-loop specification.
LoopRequests ==
    [ query              : {Str("Help"), Str("need a hospital")},
      latitude           : {Some(0)},
      longitude          : {Some(0)},
      service_type       : {None},
      location_mentioned : {None},
      urgency            : {Some(Str("Medium"))} ]

\* What the call of the geocoding service can come to: an exception
\* (timeout, transport error, non-2xx status), an empty list, or a first hit.
GeocodeOutcomes ==
    { [kind |-> "raise"],
      [kind |-> "empty"],
      [kind |-> "hit", lat |-> 24000, lon |-> 0,
       display_name |-> Some(Str("Central Park, New York"))],
      [kind |-> "hit", lat |-> 24000, lon |-> 0, display_name |-> None] }

\* The bodies of POST /add_service/ of the event-loop specification.
LoopServices ==
    { [name |-> Str("City Hospital"), type |-> Str("hospital"),
       latitude |-> 3000, longitude |-> 0] }

Requests == 1..NumRequests

(***************************************************************************)
(* State.                                                                  *)
(***************************************************************************)
VARIABLES
    store,      \* the rows of table services, in insertion order
    writes,     \* the lists of rows sent to the database and not yet committed
    pc,         \* where the handler of each request stands
    user_query, \* the UserQuery of each request, as the handler has left it
    locals,     \* the local variables of each handler
    calls,      \* the calls each handler has made, in order
    outcome,    \* what each request has come to
    loop        \* the request whose handler blocks the event loop, or 0

vars == <<store, writes, pc, user_query, locals, calls, outcome, loop>>

NoQuery == [query |-> Str(""), latitude |-> None, longitude |-> None,
            service_type |-> None, location_mentioned |-> None, urgency |-> None]

NoLocals == [entered |-> FALSE]

Pending == [kind |-> "pending"]

Init ==
    /\ store = <<>>
    /\ writes = <<>>
    /\ pc = [r \in Requests |-> "idle"]
    /\ user_query = [r \in Requests |-> NoQuery]
    /\ locals = [r \in Requests |-> NoLocals]
    /\ calls = [r \in Requests |-> <<>>]
    /\ outcome = [r \in Requests |-> Pending]
    /\ loop = 0

(***************************************************************************)
(* app/db/postgres.py                                                      *)
(***************************************************************************)
\* insert_services: the rows are appended.
insert_services(rows, services) == rows \o services

\* search_nearby: the rows within radius_km of the point, nearest first, at
\* most top_k of them.  SQL leaves the order of rows at the same distance
\* open: the value is the set of the lists the query can return.
search_nearby(rows, lat, lon, top_k, radius_km) ==
    LET Dist(i) == Geodesic(rows[i].latitude, rows[i].longitude, lat, lon)
        within == {i \in 1..Len(rows) : Dist(i) <= radius_km * 1000}
        n == Cardinality(within)
        orders == {o \in [1..n -> within] :
                      /\ \A i, j \in 1..n : i # j => o[i] # o[j]
                      /\ \A i, j \in 1..n : i < j => Dist(o[i]) <= Dist(o[j])}
        k == IF n < top_k THEN n ELSE top_k
    IN  {[i \in 1..k |-> rows[o[i]]] : o \in orders}

\* get_service_types: the distinct types of the rows.
get_service_types(rows) == {rows[i].type : i \in 1..Len(rows)}

(***************************************************************************)
(* app/services/location_service.py: geocode_location.  The value of the   *)
(* coroutine for an outcome of requests.get: every exception inside the    *)
(* try block is raised again as Exception("Geocoding failed: ...").        *)
(***************************************************************************)
geocode_location(location_query, o) ==
    CASE o.kind = "raise" -> [raised |-> TRUE]
      [] o.kind = "empty" -> [raised |-> FALSE, data |-> None]
      [] o.kind = "hit"   ->
            [raised |-> FALSE,
             data |-> Some([latitude |-> o.lat, longitude |-> o.lon,
                            display_name |-> IF o.display_name.isNone
                                             THEN location_query
                                             ELSE o.display_name.v])]

(***************************************************************************)
(* app/api/routes.py: get_help                                             *)
(***************************************************************************)
\* Lines 110-119: the items of the dictionary service_keywords, each a
\* category with its keywords.
service_keywords ==
    << <<Str("hospital"),
         <<Str("hospital"), Str("medical"), Str("healthcare"), Str("clinic"),
           Str("emergency")>> >>,
       <<Str("doctor"),
         <<Str("doctor"), Str("physician"), Str("medical"), Str("clinic"),
           Str("healthcare")>> >>,
       <<Str("ambulance"),
         <<Str("ambulance"), Str("emergency"), Str("medical transport")>> >>,
       <<Str("automobile"),
         <<Str("automobile"), Str("car"), Str("mechanic"), Str("garage"),
           Str("vehicle"), Str("repair"), Str("auto")>> >>,
       <<Str("pharmacy"),
         <<Str("pharmacy"), Str("medicine"), Str("medical"), Str("chemist"),
           Str("drug store")>> >>,
       <<Str("food"),
         <<Str("food"), Str("restaurant"), Str("cafe"), Str("catering"),
           Str("meal"), Str("hotel")>> >>,
       <<Str("police"),
         <<Str("police"), Str("security"), Str("law enforcement"),
           Str("thief")>> >>,
       <<Str("fire"),
         <<Str("fire"), Str("firefighter"), Str("emergency"),
           Str("fire extinguisher")>> >> >>

\* The elements of a list.
Elems(l) == {l[i] : i \in 1..Len(l)}

\* Lines 121-125: the keywords and names of the categories one of whose
\* words occurs in the service type.
matching_keywords(service_type) ==
    LET Hit(item) == \E keyword \in {item[1]} \cup Elems(item[2]) :
                         Contains(Lower(keyword), Lower(service_type))
    IN  UNION { Elems(item[2]) \cup {item[1]} :
                   item \in {item \in Elems(service_keywords) : Hit(item)} }

\* Line 109: the condition of the type filter.
TypeGiven(service_type) ==
    Truthy(service_type)
        /\ ~(service_type.kind = "str" /\ service_type.v = Str("unknown"))

\* Line 123 calls service_type.lower(): a list has no such method.
LowerRaises(service_type) == service_type.kind # "str"

\* Lines 127-142, for a service type that is a str.
KeywordFilter(results, service_type) ==
    LET mk == matching_keywords(service_type)
        ByKeyword(r) == \E keyword \in mk : Contains(Lower(keyword), Lower(r.type))
        ByType(r) == Contains(Lower(service_type), Lower(r.type))
        first == IF mk # {} THEN SelectSeq(results, ByKeyword)
                 ELSE SelectSeq(results, ByType)
    IN  IF first = <<>> /\ service_type # Str("unknown")
        THEN SelectSeq(results, ByType)
        ELSE first

\* Lines 108-144.
type_filtered(results, service_type) ==
    IF TypeGiven(service_type)
    THEN KeywordFilter(results, service_type.v)
    ELSE results

\* Mutant of RadiusFor: the urgency is compared without regard to case.
RadiusFor_AnyCase(urgency) ==
    IF Lower(urgency) = Str("high") THEN 15
    ELSE IF Lower(urgency) = Str("low") THEN 5
    ELSE DEFAULT_SEARCH_RADIUS_KM

\* Lines 146-151.
RadiusFor(urgency) ==
    IF urgency = Str("High") THEN 15
    ELSE IF urgency = Str("Low") THEN 5
    ELSE DEFAULT_SEARCH_RADIUS_KM

\* Mutant of filtered_by_radius: the cutoff by radius_km is left out.
filtered_by_radius_NoCutoff(rs, target_lat, target_lon, radius_km) == rs

\* Lines 153-157.
filtered_by_radius(rs, target_lat, target_lon, radius_km) ==
    LET Near(r) == Geodesic(target_lat, target_lon, r.latitude, r.longitude)
                       <= radius_km * 1000
    IN  SelectSeq(rs, Near)

\* Lines 175-180: every result gets its distance_km.
WithDistance(rs, target_lat, target_lon) ==
    [i \in 1..Len(rs) |->
        [name |-> rs[i].name, type |-> rs[i].type,
         latitude |-> rs[i].latitude, longitude |-> rs[i].longitude,
         distance_km |-> Round2(Geodesic(target_lat, target_lon,
                                         rs[i].latitude, rs[i].longitude))]]

\* x put behind the entries of the sorted list whose key is not greater.
RECURSIVE InsertByDistance(_, _)
InsertByDistance(sorted, x) ==
    IF Len(sorted) = 0 THEN <<x>>
    ELSE IF x.distance_km < Head(sorted).distance_km THEN <<x>> \o sorted
    ELSE <<Head(sorted)>> \o InsertByDistance(Tail(sorted), x)

\* Line 183: list.sort(key=distance_km), a stable sort.
RECURSIVE SortByDistance(_)
SortByDistance(rs) ==
    IF Len(rs) = 0 THEN <<>>
    ELSE InsertByDistance(SortByDistance(SubSeq(rs, 1, Len(rs) - 1)), rs[Len(rs)])

\* Line 172.
NoResultsMessage(service_type, radius_km) ==
    Str("No ") \o service_type \o Str(" services found within ") \o IntStr(radius_km)
        \o Str("km of the target location. Try increasing the search radius or ")
        \o Str("selecting a different service type.")

\* Lines 108-194: what the handler comes to once search_nearby has returned.
Respond(q, l, results) ==
    IF TypeGiven(l.service_type) /\ LowerRaises(l.service_type)
    THEN [kind |-> "unhandled", exc |-> "AttributeError"]
    ELSE
      LET radius_km == RadiusFor(l.urgency)
          filtered == filtered_by_radius(type_filtered(results, l.service_type),
                                         l.target_lat, l.target_lon, radius_km)
          envelope == [original_query |-> q.query,
                       understood_service |-> l.service_type,
                       target_location |-> l.location_name,
                       target_coordinates |-> <<l.target_lat, l.target_lon>>,
                       user_coordinates |-> <<q.latitude.v, q.longitude.v>>,
                       urgency |-> l.urgency,
                       radius_km |-> radius_km]
      IN  IF Len(filtered) = 0
          THEN [kind |-> "response",
                body |-> envelope @@
                         [nearby_services |-> <<>>,
                          message |-> NoResultsMessage(l.service_type.v, radius_km)]]
          ELSE [kind |-> "response",
                body |-> envelope @@
                         [nearby_services |->
                             SortByDistance(WithDistance(filtered, l.target_lat, l.target_lon))]]

\* Lines 175-180 write distance_km into the dictionaries of filtered, which
\* are entries of results: the list results as the handler leaves it.
ResultsAfter(l, results) ==
    IF TypeGiven(l.service_type) /\ LowerRaises(l.service_type)
    THEN results
    ELSE
      LET filtered == filtered_by_radius(type_filtered(results, l.service_type),
                                         l.target_lat, l.target_lon,
                                         RadiusFor(l.urgency))
      IN  [i \in 1..Len(results) |->
              IF InList(results[i], filtered)
              THEN WithDistance(<<results[i]>>, l.target_lat, l.target_lon)[1]
              ELSE results[i]]

(***************************************************************************)
(* The handlers on the event loop.  A handler runs from one point where it *)
(* gives up the loop to the next.  get_help gives it up in search_nearby   *)
(* (await session.execute); in geocode_location it calls requests.get, a   *)
(* blocking call, and keeps the loop's thread until the call returns.      *)
(* The database server works on its own: it answers a query and applies a  *)
(* commit while the handler that sent it is suspended, whoever holds the   *)
(* loop.                                                                   *)
(***************************************************************************)
Call(fn, args) == [fn |-> fn, args |-> args]

\* A request arrives with body q.
Receive(r, q) ==
    /\ pc[r] = "idle"
    /\ pc' = [pc EXCEPT ![r] = "start"]
    /\ user_query' = [user_query EXCEPT ![r] = q]
    /\ UNCHANGED <<store, writes, locals, calls, outcome, loop>>

\* Lines 65-73: the HTTPException of a request that lacks a field, if any.
Rejection(q) ==
    IF q.query = Str("")
    THEN Some([kind |-> "http_error", status_code |-> 400,
               detail |-> Str("Query text is required")])
    ELSE IF q.latitude.isNone \/ q.longitude.isNone
    THEN Some([kind |-> "http_error", status_code |-> 400,
               detail |-> Str("Location coordinates are required")])
    ELSE None

\* Lines 78-79: the UserQuery with what the extractor returned.
Filled(q, e) ==
    [q EXCEPT !.service_type = IF e.found_service.isNone THEN None
                               ELSE PyStr(e.found_service.v),
              !.location_mentioned = Some(e.possible_location)]

\* Lines 75-79: the UserQuery after the extraction, if it takes place.
Extracted(q) ==
    IF ~Truthy(q.service_type)
    THEN Filled(q, extract_location_and_service(q.query))
    ELSE q

ExtractCalls(q) ==
    IF ~Truthy(q.service_type)
    THEN <<Call("extract_location_and_service", <<q.query>>)>>
    ELSE <<>>

\* Lines 81-92: the local variables before the geocoding.
Analysis(q) ==
    [entered |-> TRUE,
     service_type |-> IF Truthy(q.service_type) THEN q.service_type
                      ELSE PyStr(Str("unknown")),
     mentioned_location |-> q.location_mentioned,
     urgency |-> IF Truthy(q.urgency) THEN q.urgency.v ELSE Str("Medium"),
     target_lat |-> q.latitude.v,
     target_lon |-> q.longitude.v,
     location_name |-> Str("your current location"),
     geocoded |-> "not called",
     results |-> None]

\* Lines 94-106 for the request q0, its UserQuery q after the extraction
\* and the local variables l: the handler runs to its first call that waits,
\* requests.get of the geocoder (which keeps the loop) or the query of
\* search_nearby (which gives it up).
Routed(q0, q, l) ==
    IF Truthy(l.mentioned_location)
    THEN [pc |-> "geocoding", user_query |-> q, locals |-> l, outcome |-> Pending,
          calls |-> ExtractCalls(q0) \o
                    <<Call("geocode_location", <<l.mentioned_location.v>>)>>]
    ELSE [pc |-> "searching", user_query |-> q, locals |-> l, outcome |-> Pending,
          calls |-> ExtractCalls(q0) \o
                    <<Call("search_nearby", <<l.target_lat, l.target_lon, 100>>)>>]

\* Lines 75-106 for a request that has passed lines 69-73.
Accepted(q0) == Routed(q0, Extracted(q0), Analysis(Extracted(q0)))

\* Mutant of FirstStretch: the extraction of lines 75-79 comes before the
\* checks of lines 69-73.
FirstStretch_ExtractFirst(q0) ==
    LET rej == Rejection(q0)
    IN  IF ~rej.isNone
        THEN [pc |-> "done", user_query |-> q0, locals |-> NoLocals,
              outcome |-> rej.v, calls |-> ExtractCalls(q0)]
        ELSE Accepted(q0)

\* Lines 65-106: the first stretch of the handler.
FirstStretch(q0) ==
    LET rej == Rejection(q0)
    IN  IF ~rej.isNone
        THEN [pc |-> "done", user_query |-> q0, locals |-> NoLocals,
              outcome |-> rej.v, calls |-> <<>>]
        ELSE Accepted(q0)

Begin(r) ==
    /\ pc[r] = "start"
    /\ loop = 0
    /\ \E s \in {FirstStretch(user_query[r])} :
           /\ pc' = [pc EXCEPT ![r] = s.pc]
           /\ user_query' = [user_query EXCEPT ![r] = s.user_query]
           /\ locals' = [locals EXCEPT ![r] = s.locals]
           /\ outcome' = [outcome EXCEPT ![r] = s.outcome]
           /\ calls' = [calls EXCEPT ![r] = s.calls]
           /\ loop' = IF s.pc = "geocoding" THEN r ELSE 0
    /\ UNCHANGED <<store, writes>>

\* Lines 96-103: the local variables after geocode_location has returned or
\* raised; the handler catches every Exception.
AfterGeocode(l, g) ==
    IF g.raised THEN [l EXCEPT !.geocoded = "failed"]
    ELSE IF g.data.isNone THEN [l EXCEPT !.geocoded = "no match"]
    ELSE [l EXCEPT !.geocoded = "found",
                   !.target_lat = g.data.v.latitude,
                   !.target_lon = g.data.v.longitude,
                   !.location_name = g.data.v.display_name]

\* Lines 97-106: requests.get returns or raises; the handler goes on to the
\* query of search_nearby, where it gives up the loop.
GeocodeReturn(r) ==
    /\ pc[r] = "geocoding"
    /\ loop = r
    /\ \E o \in GeocodeOutcomes :
          LET l == AfterGeocode(locals[r],
                       geocode_location(locals[r].mentioned_location.v, o))
          IN  /\ locals' = [locals EXCEPT ![r] = l]
              /\ calls' = [calls EXCEPT ![r] = @ \o
                     <<Call("search_nearby", <<l.target_lat, l.target_lon, 100>>)>>]
    /\ pc' = [pc EXCEPT ![r] = "searching"]
    /\ loop' = 0
    /\ UNCHANGED <<store, writes, user_query, outcome>>

\* postgres.py lines 84-94: the database answers the query of search_nearby
\* from the rows of the table; the handler is still suspended.
Fetch(r) ==
    /\ pc[r] = "searching"
    /\ \E results \in search_nearby(store, locals[r].target_lat,
                                    locals[r].target_lon, 100, 20) :
          locals' = [locals EXCEPT ![r].results = Some(results)]
    /\ pc' = [pc EXCEPT ![r] = "fetched"]
    /\ UNCHANGED <<store, writes, user_query, calls, outcome, loop>>

\* Lines 106-194: the handler resumes with the rows it was given and runs
\* to its end.
Finish(r) ==
    /\ pc[r] = "fetched"
    /\ loop = 0
    /\ outcome' = [outcome EXCEPT ![r] =
                      Respond(user_query[r], locals[r], locals[r].results.v)]
    /\ locals' = [locals EXCEPT ![r].results =
                      Some(ResultsAfter(locals[r], locals[r].results.v))]
    /\ pc' = [pc EXCEPT ![r] = "done"]
    /\ UNCHANGED <<store, writes, user_query, calls, loop>>

\* The outcome of the request has been sent: the response, the client error,
\* or status 500 for an exception the handler did not catch.
Deliver(r) ==
    /\ pc[r] = "done"
    /\ pc' = [pc EXCEPT ![r] = "idle"]
    /\ user_query' = [user_query EXCEPT ![r] = NoQuery]
    /\ locals' = [locals EXCEPT ![r] = NoLocals]
    /\ calls' = [calls EXCEPT ![r] = <<>>]
    /\ outcome' = [outcome EXCEPT ![r] = Pending]
    /\ UNCHANGED <<store, writes, loop>>

\* The number of rows of the lists ws.
RECURSIVE Rows(_)
Rows(ws) == IF Len(ws) = 0 THEN 0 ELSE Len(Head(ws)) + Rows(Tail(ws))

\* The rows the table can still take.
Room == MaxStore - Len(store) - Rows(writes)

\* Lines 14-20: add_service with a body of the set services runs up to
\* await session.commit() of insert_services (postgres.py line 68).
AddService(services) ==
    /\ loop = 0
    /\ Len(writes) < MaxWrites
    /\ Room >= 1
    /\ \E service \in services :
          writes' = Append(writes, <<service>>)
    /\ UNCHANGED <<store, pc, user_query, locals, calls, outcome, loop>>

\* Lines 22-29: upload with a CSV file that parse_csv reads into a list of
\* services of the set services runs up to await session.commit() of
\* insert_services, all rows in one transaction; a file without rows
\* commits nothing.
UploadServices(services) ==
    /\ loop = 0
    /\ Len(writes) < MaxWrites
    /\ \E n \in 0..Room : \E rows \in [1..n -> services] :
          writes' = IF n = 0 THEN writes ELSE Append(writes, rows)
    /\ UNCHANGED <<store, pc, user_query, locals, calls, outcome, loop>>

\* postgres.py lines 67-68: the database applies the commit of one of the
\* lists sent to it; its rows are in the table from here on.
Commit ==
    /\ \E i \in 1..Len(writes) :
          /\ store' = insert_services(store, writes[i])
          /\ writes' = SubSeq(writes, 1, i - 1) \o SubSeq(writes, i + 1, Len(writes))
    /\ UNCHANGED <<pc, user_query, locals, calls, outcome, loop>>

(***************************************************************************)
(* Spec: one get_help request at a time, with every body of HelpRequests.  *)
(***************************************************************************)
ReceiveHelp == \E q \in HelpRequests : Receive(1, q)

Next ==
    \/ ReceiveHelp
    \/ Begin(1)
    \/ GeocodeReturn(1)
    \/ Fetch(1)
    \/ Finish(1)
    \/ Deliver(1)
    \/ AddService(ServiceInputs)
    \/ UploadServices(ServiceInputs)
    \/ Commit

Spec == Init /\ [][Next]_vars

(***************************************************************************)
(* SpecLoop: the requests of Requests in flight on one event loop.         *)
(***************************************************************************)
ReceiveLoop(r) == \E q \in LoopRequests : Receive(r, q)

NextLoop ==
    \/ \E r \in Requests : ReceiveLoop(r)
    \/ \E r \in Requests : Begin(r)
    \/ \E r \in Requests : GeocodeReturn(r)
    \/ \E r \in Requests : Fetch(r)
    \/ \E r \in Requests : Finish(r)
    \/ \E r \in Requests : Deliver(r)
    \/ AddService(LoopServices)
    \/ UploadServices(LoopServices)
    \/ Commit

SpecLoop == Init /\ [][NextLoop]_vars

(***************************************************************************)
(* SpecExtract: one request at a time whose text goes through the          *)
(* extractor, with every text of ExtractorTexts.                           *)
(***************************************************************************)
ReceiveText == \E q \in ExtractorRequests : Receive(1, q)

NextExtract ==
    \/ ReceiveText
    \/ Begin(1)
    \/ GeocodeReturn(1)
    \/ Fetch(1)
    \/ Finish(1)
    \/ Deliver(1)
    \/ AddService(LoopServices)
    \/ UploadServices(LoopServices)
    \/ Commit

SpecExtract == Init /\ [][NextExtract]_vars

(***************************************************************************)
(* Properties.                                                             *)
(***************************************************************************)
IsResponse(r) == pc[r] = "done" /\ outcome[r].kind = "response"

Body(r) == outcome[r].body

\* A returned service without its distance_km: the record search_nearby gave.
Bare(x) == [name |-> x.name, type |-> x.type,
            latitude |-> x.latitude, longitude |-> x.longitude]

\* The list search_nearby returned to the handler of r, without the
\* distance_km the handler wrote into its entries.
Returned(r) ==
    [i \in 1..Len(locals[r].results.v) |-> Bare(locals[r].results.v[i])]

\* a is b with some entries left out.
RECURSIVE IsSubseq(_, _)
IsSubseq(a, b) ==
    IF Len(a) = 0 THEN TRUE
    ELSE IF Len(b) = 0 THEN FALSE
    ELSE IF Head(a) = Head(b) THEN IsSubseq(Tail(a), Tail(b))
    ELSE IsSubseq(a, Tail(b))

\* The request of r is valid: lines 69-73 let it pass.
ValidRequest(r) ==
    /\ user_query[r].query # Str("")
    /\ ~user_query[r].latitude.isNone
    /\ ~user_query[r].longitude.isNone

\* The request of r carries an explicit non-empty service_type list.
ExplicitType(r) ==
    /\ ~user_query[r].service_type.isNone
    /\ user_query[r].service_type.kind = "list"
    /\ Len(user_query[r].service_type.v) > 0

\* C1: in every response nearby_services is ordered by non-decreasing
\* distance_km, entries of equal distance_km stand in the order in which
\* search_nearby returned them, and every distance_km is at most the
\* radius_km of the same response (distance_km counts hundredths of a km).
C1_SortedWithinRadius ==
    \A r \in Requests : IsResponse(r) =>
        LET ns == Body(r).nearby_services
            SameKey(d) == LET Eq(x) == x.distance_km = d IN SelectSeq(ns, Eq)
        IN  /\ \A i, j \in 1..Len(ns) :
                  i < j => ns[i].distance_km <= ns[j].distance_km
            /\ \A i \in 1..Len(ns) :
                  ns[i].distance_km <= Body(r).radius_km * 100
            /\ \A i \in 1..Len(ns) :
                  LET g == SameKey(ns[i].distance_km)
                  IN  IsSubseq([k \in 1..Len(g) |-> Bare(g[k])], Returned(r))

\* C1 witness: a response with two different services of equal distance_km.
C1_Witness ==
    \E r \in Requests :
        /\ IsResponse(r)
        /\ Len(Body(r).nearby_services) = 2
        /\ Body(r).nearby_services[1].distance_km = Body(r).nearby_services[2].distance_km
        /\ Body(r).nearby_services[1].name # Body(r).nearby_services[2].name

\* C2: every returned record has a type that, lower-cased and
\* trimmed, equals the resolved service-type label, lower-cased and trimmed.
C2_ExactLabelOnly ==
    \A r \in Requests : IsResponse(r) =>
        \A i \in 1..Len(Body(r).nearby_services) :
            Lower(Strip(Body(r).nearby_services[i].type))
                = Lower(Strip(Body(r).understood_service.v))

\* C3: a valid request with an explicit non-empty service_type list ends in
\* a response whose understood service is that list, and the extractor has
\* not been called for it.
C3_ExplicitTypeCompletes ==
    \A r \in Requests :
        (pc[r] = "done" /\ ValidRequest(r) /\ ExplicitType(r)) =>
            /\ outcome[r].kind = "response"
            /\ Body(r).understood_service = user_query[r].service_type
            /\ \A i \in 1..Len(calls[r]) :
                  calls[r][i].fn # "extract_location_and_service"

\* C4: a request whose geocoder call failed or found nothing ends in a
\* response with target_coordinates equal to user_coordinates and the
\* target location "your current location", and its search ran around the
\* user's coordinates.
C4_GeocodeFailureRecovered ==
    \A r \in Requests :
        (pc[r] = "done" /\ locals[r].entered
            /\ locals[r].geocoded \in {"failed", "no match"}) =>
            /\ outcome[r].kind = "response"
            /\ Body(r).target_coordinates = Body(r).user_coordinates
            /\ Body(r).target_location = Str("your current location")
            /\ calls[r][Len(calls[r])] =
                  Call("search_nearby", <<user_query[r].latitude.v,
                                          user_query[r].longitude.v, 100>>)

\* C5: when the resolved type is "unknown", only records whose
\* type equals "unknown" are returned.
C5_UnknownFiltered ==
    \A r \in Requests :
        (IsResponse(r) /\ Body(r).understood_service.v = Str("unknown")) =>
            \A i \in 1..Len(Body(r).nearby_services) :
                Body(r).nearby_services[i].type = Str("unknown")

\* C6: without an explicit type, the resolved type is a type of
\* the store's records or "unknown", and "unknown" when the store is empty.
C6_ResolvedInVocabulary ==
    \A r \in Requests :
        (IsResponse(r) /\ ~ExplicitType(r)) =>
            /\ Body(r).understood_service.v \in get_service_types(store) \cup {Str("unknown")}
            /\ store = <<>> => Body(r).understood_service.v = Str("unknown")

\* C7: a request with an empty query, or without latitude or longitude,
\* makes no call of the extractor, the geocoder or the store at any point,
\* never leaves the entry of the handler but to end, and ends in the client
\* error 400.
C7_RejectedWithoutPipeline ==
    \A r \in Requests :
        (pc[r] # "idle" /\ ~ValidRequest(r)) =>
            /\ calls[r] = <<>>
            /\ pc[r] \in {"start", "done"}
            /\ pc[r] = "done" =>
                  /\ outcome[r].kind = "http_error"
                  /\ outcome[r].status_code = 400

\* C7 witness: a rejected request that had a query and no longitude.
C7_Witness ==
    \E r \in Requests :
        /\ pc[r] = "done"
        /\ user_query[r].query # Str("")
        /\ ~user_query[r].latitude.isNone
        /\ user_query[r].longitude.isNone
        /\ ~Truthy(user_query[r].service_type)
        /\ outcome[r].kind = "http_error"

\* C8: while a request waits on its geocoding call, every other request in
\* flight can take its next step.
C8_GeocodeDoesNotBlock ==
    \A r, o \in Requests :
        (r # o /\ pc[r] = "geocoding" /\ pc[o] \in {"start", "fetched"}) =>
            ENABLED (Begin(o) \/ Finish(o))

\* C9: the radius_km of a response is 15 for the urgency "High", 5 for
\* "Low" and 10 for every other urgency, absent ones included, and no
\* returned service lies farther from the target than that; when no type
\* filter applies (resolved type "unknown"), every record search_nearby
\* returned within that radius is in the response.
C9_RadiusByUrgency ==
    \A r \in Requests : IsResponse(r) =>
        LET expected == IF user_query[r].urgency = Some(Str("High")) THEN 15
                        ELSE IF user_query[r].urgency = Some(Str("Low")) THEN 5
                        ELSE 10
        IN  /\ Body(r).radius_km = expected
            /\ \A i \in 1..Len(Body(r).nearby_services) :
                  Abs(Body(r).nearby_services[i].latitude
                        - Body(r).target_coordinates[1]) <= expected * 1000
            /\ Body(r).understood_service.v = Str("unknown") =>
                  \A i \in 1..Len(Returned(r)) :
                      Abs(Returned(r)[i].latitude - Body(r).target_coordinates[1])
                              <= expected * 1000
                          => \E j \in 1..Len(Body(r).nearby_services) :
                                Bare(Body(r).nearby_services[j]) = Returned(r)[i]

\* C9 witness: a response for the urgency "high" with the default radius.
C9_Witness ==
    \E r \in Requests :
        /\ IsResponse(r)
        /\ user_query[r].urgency = Some(Str("high"))
        /\ Body(r).radius_km = 10
        /\ Len(Body(r).nearby_services) > 0

\* No candidate of the request survives the filters: none by the type
\* filter of lines 108-144 and the radius filter for a str type, none within
\* the radius at all for a list.
C10_NoSurvivor(r) ==
    LET l == locals[r]
        typed == IF l.service_type.kind = "str"
                 THEN type_filtered(l.results.v, l.service_type)
                 ELSE l.results.v
    IN  filtered_by_radius(typed, l.target_lat, l.target_lon, RadiusFor(l.urgency)) = <<>>

\* C10: every valid request, with or without an explicit service type, of
\* which no candidate survives the filters ends in a response with an empty
\* nearby_services, a non-empty message and the envelope fields.
C10_EmptyResultShape ==
    \A r \in Requests :
        (pc[r] = "done" /\ ValidRequest(r) /\ C10_NoSurvivor(r)) =>
            /\ outcome[r].kind = "response"
            /\ Body(r).nearby_services = <<>>
            /\ "message" \in DOMAIN Body(r)
            /\ Len(Body(r).message) > 0
            /\ Body(r).original_query = user_query[r].query
            /\ Body(r).understood_service = locals[r].service_type
            /\ Body(r).target_location = locals[r].location_name
            /\ Body(r).target_coordinates = <<locals[r].target_lat, locals[r].target_lon>>
            /\ Body(r).user_coordinates =
                  <<user_query[r].latitude.v, user_query[r].longitude.v>>
            /\ Body(r).urgency = locals[r].urgency
            /\ Body(r).radius_km = RadiusFor(locals[r].urgency)

\* The handler of r has called the extractor: the UserQuery holds its result.
C11_Extracted(r) ==
    /\ Len(calls[r]) > 0
    /\ calls[r][1].fn = "extract_location_and_service"

\* The service hint the extractor gave for the request of r, None when the
\* field service_type was left None.
C11_Hint(r) ==
    IF user_query[r].service_type.isNone THEN None
    ELSE Some(user_query[r].service_type.v)

\* C11 as stated: for "I need an ambulance near Central Park" the extractor
\* gives the hint "ambulance" and the location "i an near central park".
C11_ExampleOneSpace ==
    \A r \in Requests :
        (C11_Extracted(r)
            /\ user_query[r].query = Str("I need an ambulance near Central Park")) =>
            /\ C11_Hint(r) = Some(Str("ambulance"))
            /\ user_query[r].location_mentioned = Some(Str("i an near central park"))

\* C11 as amended: the hint is the first entry of the lexicon, in the
\* lexicon's order, that is a word of the lower-cased text; the location is
\* the other words joined by single spaces, with every "need" and then every
\* "help" cut out of the joined text and the ends trimmed.  The space on
\* either side of a removed word stays: the example gives
\* "i  an near central park", with two spaces, and "Needy nurse helpline"
\* gives "y line".
C11_ExtractorOutput ==
    \A r \in Requests : C11_Extracted(r) =>
        LET words == Split(Lower(user_query[r].query))
            lexicon == <<Str("ambulance"), Str("doctor"), Str("hospital"),
                         Str("medical"), Str("clinic"), Str("nurse")>>
            first == {i \in 1..Len(lexicon) :
                         /\ InList(lexicon[i], words)
                         /\ \A j \in 1..(i - 1) : ~InList(lexicon[j], words)}
            hint == C11_Hint(r)
            Other(w) == hint.isNone \/ w # hint.v
            joined == Join(Str(" "), SelectSeq(words, Other))
            loc == user_query[r].location_mentioned.v
        IN  /\ IF first = {} THEN hint = None
               ELSE \E i \in first : hint = Some(lexicon[i])
            /\ loc = Strip(Remove(Remove(joined, Str("need")), Str("help")))
            /\ user_query[r].query = Str("I need an ambulance near Central Park")
                  => hint = Some(Str("ambulance")) /\ loc = Str("i  an near central park")
            /\ user_query[r].query = Str("Needy nurse helpline")
                  => hint = Some(Str("nurse")) /\ loc = Str("y line")
            /\ user_query[r].query = Str("clinic doctor")
                  => hint = Some(Str("doctor")) /\ loc = Str("clinic")
            /\ user_query[r].query = Str("Help") => hint = None /\ loc = Str("")
            /\ user_query[r].query = NurseNearCafe
                  => hint = Some(Str("nurse")) /\ loc = Str("near caf") \o <<233>>
            /\ user_query[r].query = OdosClinicSos
                  => /\ hint = Some(Str("clinic"))
                     /\ loc = <<959, 948, 959, 962>> \o Str(" ") \o <<963, 959, 962>>
            /\ user_query[r].query = NeedHelpAtEcole
                  => /\ hint = Some(Str("doctor"))
                     /\ loc = <<224>> \o Str("t ") \o <<233>> \o Str("cole")
            /\ user_query[r].query = HospitalUnited
                  => hint = Some(Str("hospital")) /\ loc = <<252>> \o Str("nited")
            /\ user_query[r].query = HospitalBar
                  => hint = Some(Str("hospital")) /\ loc = <<595>> \o Str("ar")
            /\ user_query[r].query = IstanbulClinic
                  => hint = Some(Str("clinic")) /\ loc = <<105, 775>> \o Str("stanbul")
            /\ user_query[r].query = DoctorElet
                  => /\ hint = Some(Str("doctor"))
                     /\ loc = <<601>> \o Str("l") \o <<601>> \o Str("t")
            /\ user_query[r].query = AmbulanceDeseret
                  => hint = Some(Str("ambulance")) /\ loc = <<66600, 66601>>

\* C11 witness: the extractor has run on the example text and left the
\* location with two spaces.
C11_Witness ==
    \E r \in Requests :
        /\ C11_Extracted(r)
        /\ user_query[r].query = Str("I need an ambulance near Central Park")
        /\ user_query[r].service_type = PyStr(Str("ambulance"))
        /\ user_query[r].location_mentioned = Some(Str("i  an near central park"))

=============================================================================
